---- MODULE Spec2Model ----
(***************************************************************************)
(* The admin dashboard of the job import system: the Dashboard page        *)
(* (fetchData polling, triggerImport) and the ImportHistoryTable component *)
(* (fetchLogs, filters, sorting, pagination), as state machines driven by  *)
(* user events, timers and HTTP responses.                                 *)
(***************************************************************************)
EXTENDS Integers, Sequences, FiniteSets, TLC

VARIABLES
    mounted,           \* Dashboard lifecycle: "init", "mounted", "unmounted"
    importStats,       \* Dashboard state importStats
    importStatus,      \* Dashboard state importStatus
    dashboardLoading,  \* Dashboard state loading
    triggering,        \* Dashboard state triggering
    activeTab,         \* Dashboard state activeTab
    rounds,            \* fetchData calls that have not returned yet
    triggers,          \* triggerImport calls that have not returned yet
    interval,          \* TRUE while the setInterval(fetchData, 30000) is set
    timers,            \* number of pending setTimeout(fetchData, 1000)
    roundCount,        \* fetchData calls started so far
    triggerCount,      \* triggerImport calls started so far
    logs,              \* ImportHistoryTable state logs
    loading,           \* ImportHistoryTable state loading
    pagination,        \* ImportHistoryTable state pagination
    filters,           \* ImportHistoryTable state filters
    selectedLog,       \* ImportHistoryTable state selectedLog
    showDetails,       \* ImportHistoryTable state showDetails
    tableMounted,      \* the effects of ImportHistoryTable have run
    priorCalls,        \* fetchLogs calls started by earlier instances of the table
    duration,          \* the duration of the log entry whose Duration cell is rendered
    formatted,         \* the text of that cell, "" before it is rendered
    logsCalls,         \* fetchLogs calls that have not returned yet
    logsCount,         \* fetchLogs calls started so far
    toast,             \* the notification raised (toast.error / toast.success) by the step just taken
    delivered,         \* the HTTP response(s) handed to the step just taken
    jobs,              \* server: the ImportJobs of the Queue Engine, in submission order
    queueConcurrency,  \* server: the configured global concurrency limit
    lastFailure,       \* server: the job-level failure handled by the step just taken
    store,             \* server: the stored JobRecord rows, in insertion order
    writers            \* server: the runs that have written through the Upserter

dashVars == <<mounted, importStats, importStatus, dashboardLoading, triggering,
              rounds, triggers, interval, timers, roundCount, triggerCount>>
modalVars == <<selectedLog, showDetails>>
cellVars == <<duration, formatted>>
tableVars == <<activeTab, tableMounted, logs, loading, pagination, filters,
               logsCalls, logsCount, modalVars, priorCalls, cellVars>>
clientVars == <<dashVars, tableVars, toast, delivered>>
queueVars == <<jobs, queueConcurrency, lastFailure>>
storeVars == <<store, writers>>
serverVars == <<queueVars, storeVars>>
vars == <<clientVars, serverVars>>

(***************************************************************************)
(* Bounds of the model.                                                    *)
(***************************************************************************)
MaxRounds == 2      \* fetchData calls
MaxTriggers == 2    \* triggerImport calls
MaxLogsCalls == 4   \* fetchLogs calls
MaxPagingCalls == 6 \* fetchLogs calls of a run that only pages and refreshes
MaxHistoryCalls == 5 \* fetchLogs calls of a run that switches tabs
MaxDetailCalls == 3 \* fetchLogs calls of a run that opens the details modal
MaxRows == 2        \* rows of the table whose details button is clicked
MaxHours == 2       \* whole hours of the longest duration formatted
MaxJobs == 2        \* ImportJobs submitted
MaxConcurrency == 2 \* largest configured global concurrency limit
MaxWriters == 2     \* runs writing through the Upserter at the same time
MaxUpserts == 4     \* records upserted by all runs together

\* QUEUE_CONCURRENCY of the README's server/.env
QUEUE_CONCURRENCY == 5

\* "Retry Logic: Exponential backoff with 3 attempts"
MaxAttempts == 3

(***************************************************************************)
(* HTTP responses.  net: the fetch promise resolved (FALSE: it rejected);  *)
(* ok: Response.ok (a 2xx status); json: the body parses as JSON; success, *)
(* hasData, hasMessage: the parsed body's success flag and whether it has  *)
(* a data / a message member.  The server answers as the REST contract     *)
(* says: a success:true body carries data and no message, a success:false  *)
(* body carries a message, a non-2xx answer is {success:false, message}.   *)
(***************************************************************************)
Responses ==
    { r \in [net : BOOLEAN, ok : BOOLEAN, json : BOOLEAN, success : BOOLEAN,
             hasData : BOOLEAN, hasMessage : BOOLEAN] :
        /\ (~r.net => ~r.ok /\ ~r.json)
        /\ (~r.json => ~r.success /\ ~r.hasData /\ ~r.hasMessage)
        /\ (r.json => (r.hasMessage <=> ~r.success))
        /\ (r.success => r.hasData)
        /\ (r.net /\ ~r.ok => r.json /\ ~r.success /\ ~r.hasData) }

\* the response is a failure in the sense of the REST contract
Failed(r) == ~r.net \/ ~r.ok \/ ~r.json \/ ~r.success

ServerMessage == "server message"

Null == [tag |-> "null", from |-> 0]
Undefined == [tag |-> "undefined", from |-> 0]
Data(id) == [tag |-> "data", from |-> id]

\* body.data of the parsed body of response r to call id
BodyData(r, id) == IF r.hasData THEN Data(id) ELSE Undefined

\* a response whose handling by the client finished in the step just taken
Seen(of, r) == [of |-> of, response |-> r]

NoDelivery == [call |-> "none", id |-> 0, seen |-> {}]
Delivery(call, id, seen) == [call |-> call, id |-> id, seen |-> seen]

NoToast == [type |-> "none", message |-> ""]
ErrorToast(msg) == [type |-> "error", message |-> msg]
SuccessToast(msg) == [type |-> "success", message |-> msg]

Digits == <<"0", "1", "2", "3", "4", "5", "6", "7", "8", "9">>

\* Number.prototype.toString() of a natural number
RECURSIVE toString(_)
toString(n) ==
    IF n < 10 THEN Digits[n + 1]
    ELSE toString(n \div 10) \o Digits[(n % 10) + 1]

NoParams == [k \in {} |-> ""]

\* a fetch(url, {method, body}) call; query is the URLSearchParams of the url
Request(method, url, query, body) ==
    [method |-> method, url |-> url, query |-> query, body |-> body]

(***************************************************************************)
(* Dashboard                                                               *)
(***************************************************************************)

\* React ignores a state setter called after the component has unmounted
Set(old, new) == IF mounted = "mounted" THEN new ELSE old

StatsRequest == Request("GET", "/api/import/stats", NoParams, "")

\* the status request sent with the method of the trigger request
StatusRequestPost == Request("POST", "/api/import/status", NoParams, "")

StatusRequest == Request("GET", "/api/import/status", NoParams, "")

\* fetchData beginning with setLoading(true), as fetchLogs does
StartFetchDataSetsLoading ==
    /\ roundCount < MaxRounds
    /\ roundCount' = roundCount + 1
    /\ rounds' = rounds \cup
          {[id |-> roundCount + 1, pc |-> "fetching",
            requests |-> {StatsRequest, StatusRequest}]}
    /\ dashboardLoading' = Set(dashboardLoading, TRUE)

\* fetchData, up to the await of Promise.all: both GETs are sent; loading is
\* not touched
StartFetchData ==
    /\ roundCount < MaxRounds
    /\ roundCount' = roundCount + 1
    /\ rounds' = rounds \cup
          {[id |-> roundCount + 1, pc |-> "fetching",
            requests |-> {StatsRequest, StatusRequest}]}
    /\ UNCHANGED dashboardLoading

\* useEffect(() => { fetchData(); setInterval(fetchData, 30000); ... }, [])
DashboardMount ==
    /\ mounted = "init"
    /\ mounted' = "mounted"
    /\ StartFetchData
    /\ interval' = TRUE
    /\ delivered' = NoDelivery
    /\ toast' = NoToast
    /\ UNCHANGED <<importStats, importStatus, triggering, triggers, timers,
                   triggerCount, tableVars, serverVars>>

\* an effect that returns no cleanup: the interval outlives the page
DashboardUnmountKeepsInterval ==
    /\ mounted = "mounted"
    /\ mounted' = "unmounted"
    /\ delivered' = NoDelivery
    /\ toast' = NoToast
    /\ UNCHANGED <<importStats, importStatus, dashboardLoading, triggering,
                   rounds, triggers, interval, timers, roundCount,
                   triggerCount, tableVars, serverVars>>

\* a cleanup that also clears the timeouts of triggerImport
DashboardUnmountClearsTimers ==
    /\ mounted = "mounted"
    /\ mounted' = "unmounted"
    /\ interval' = FALSE
    /\ timers' = 0
    /\ delivered' = NoDelivery
    /\ toast' = NoToast
    /\ UNCHANGED <<importStats, importStatus, dashboardLoading, triggering,
                   rounds, triggers, roundCount, triggerCount,
                   tableVars, serverVars>>

\* the cleanup of the effect: clearInterval(interval)
DashboardUnmount ==
    /\ mounted = "mounted"
    /\ mounted' = "unmounted"
    /\ interval' = FALSE
    /\ delivered' = NoDelivery
    /\ toast' = NoToast
    /\ UNCHANGED <<importStats, importStatus, dashboardLoading, triggering,
                   rounds, triggers, timers, roundCount, triggerCount,
                   tableVars, serverVars>>

\* the 30 second interval fires
PollTick ==
    /\ interval
    /\ StartFetchData
    /\ delivered' = NoDelivery
    /\ toast' = NoToast
    /\ UNCHANGED <<mounted, importStats, importStatus, triggering, triggers,
                   interval, timers, triggerCount, tableVars, serverVars>>

\* the Refresh button of the header, rendered once loading is false
RefreshClick ==
    /\ mounted = "mounted"
    /\ ~dashboardLoading
    /\ StartFetchData
    /\ delivered' = NoDelivery
    /\ toast' = NoToast
    /\ UNCHANGED <<mounted, importStats, importStatus, triggering, triggers,
                   interval, timers, triggerCount, tableVars, serverVars>>

\* a setTimeout(fetchData, 1000) of an earlier trigger fires
TimerFire ==
    /\ timers > 0
    /\ timers' = timers - 1
    /\ StartFetchData
    /\ delivered' = NoDelivery
    /\ toast' = NoToast
    /\ UNCHANGED <<mounted, importStats, importStatus, triggering, triggers,
                   interval, triggerCount, tableVars, serverVars>>

\* if (statsResponse.ok): the stats body is read
StatsRead(sr) == sr.ok

\* if (statusResponse.ok): the status body is read
StatusRead(tr) == tr.ok

\* the value passed to setImportStats once the stats body has parsed
StatsPayload(sr, id) == BodyData(sr, id)

\* the value passed to setImportStatus once the status body has parsed
StatusPayload(tr, id) == BodyData(tr, id)

\* what the catch block of fetchData shows
FetchDataCatch == ErrorToast("Failed to fetch dashboard data")

\* the value the finally block of fetchData gives to loading
FetchDataFinally == FALSE

\* fetchData from the settling of Promise.all to its next await or its return
FetchDataResolve(r, sr, tr) ==
    LET rejected == ~sr.net \/ ~tr.net
        statsThrows == ~rejected /\ StatsRead(sr) /\ ~sr.json
        statsSet == ~rejected /\ StatsRead(sr) /\ sr.json
        \* await statusResponse.json() after setImportStats
        suspended == statsSet /\ StatusRead(tr)
        statusRead == ~rejected /\ ~StatsRead(sr) /\ StatusRead(tr)
        statusThrows == statusRead /\ ~tr.json
        statusSet == statusRead /\ tr.json
        caught == rejected \/ statsThrows \/ statusThrows
    IN  /\ r.pc = "fetching"
        /\ delivered' = Delivery("fetchData", r.id,
              {Seen("stats", sr)} \cup
              (IF suspended THEN {} ELSE {Seen("status", tr)}))
        /\ importStats' =
              IF statsSet THEN Set(importStats, StatsPayload(sr, r.id))
              ELSE importStats
        /\ importStatus' =
              IF statusSet THEN Set(importStatus, StatusPayload(tr, r.id))
              ELSE importStatus
        /\ toast' = IF caught THEN FetchDataCatch ELSE NoToast
        /\ dashboardLoading' =
              IF suspended THEN dashboardLoading
              ELSE Set(dashboardLoading, FetchDataFinally)
        /\ rounds' =
              IF suspended
              THEN (rounds \ {r}) \cup
                     {[id |-> r.id, pc |-> "statusJson", requests |-> {},
                       statusResponse |-> tr]}
              ELSE rounds \ {r}
        /\ UNCHANGED <<mounted, triggering, triggers, interval, timers,
                       roundCount, triggerCount, tableVars, serverVars>>

\* fetchData from the settling of statusResponse.json() to its return
FetchDataStatusJson(r) ==
    /\ r.pc = "statusJson"
    /\ delivered' = Delivery("fetchData", r.id, {Seen("status", r.statusResponse)})
    /\ importStatus' =
          IF r.statusResponse.json
          THEN Set(importStatus, StatusPayload(r.statusResponse, r.id))
          ELSE importStatus
    /\ toast' = IF r.statusResponse.json THEN NoToast ELSE FetchDataCatch
    /\ dashboardLoading' = Set(dashboardLoading, FetchDataFinally)
    /\ rounds' = rounds \ {r}
    /\ UNCHANGED <<mounted, importStats, triggering, triggers, interval, timers,
                   roundCount, triggerCount, tableVars, serverVars>>

FetchDataStep ==
    \E r \in rounds :
        \/ \E sr \in Responses, tr \in Responses : FetchDataResolve(r, sr, tr)
        \/ FetchDataStatusJson(r)

\* JSON.stringify of an object whose members, in order, are the <<key, integer>>
\* pairs of members
RECURSIVE JSONMembers(_)
JSONMembers(members) ==
    IF members = <<>> THEN ""
    ELSE "\"" \o Head(members)[1] \o "\":" \o toString(Head(members)[2]) \o
         (IF Tail(members) = <<>> THEN "" ELSE "," \o JSONMembers(Tail(members)))

JSONStringify(members) == "{" \o JSONMembers(members) \o "}"

\* a body whose priority is lowered with every trigger already made
TriggerBodyFromState ==
    <<<<"priority", 10 - triggerCount>>, <<"concurrency", 5>>, <<"batchSize", 100>>>>

\* the object literal triggerImport sends
TriggerBody == <<<<"priority", 10>>, <<"concurrency", 5>>, <<"batchSize", 100>>>>

TriggerRequest ==
    Request("POST", "/api/import/trigger", NoParams, JSONStringify(TriggerBody))

\* data.data.jobId of the body of the response to trigger call id
JobId(id) == "job-" \o toString(id)

\* a Trigger Import button without disabled={triggering}
TriggerImportAlwaysEnabled ==
    /\ mounted = "mounted"
    /\ ~dashboardLoading
    /\ triggerCount < MaxTriggers
    /\ triggerCount' = triggerCount + 1
    /\ triggering' = TRUE
    /\ triggers' = triggers \cup
          {[id |-> triggerCount + 1, requests |-> {TriggerRequest}]}
    /\ delivered' = NoDelivery
    /\ toast' = NoToast
    /\ UNCHANGED <<mounted, importStats, importStatus, dashboardLoading, rounds,
                   interval, timers, roundCount, tableVars, serverVars>>

\* the Trigger Import button (disabled while triggering): triggerImport up to
\* its await fetch
TriggerImport ==
    /\ mounted = "mounted"
    /\ ~dashboardLoading
    /\ ~triggering
    /\ triggerCount < MaxTriggers
    /\ triggerCount' = triggerCount + 1
    /\ triggering' = TRUE
    /\ triggers' = triggers \cup
          {[id |-> triggerCount + 1, requests |-> {TriggerRequest}]}
    /\ delivered' = NoDelivery
    /\ toast' = NoToast
    /\ UNCHANGED <<mounted, importStats, importStatus, dashboardLoading, rounds,
                   interval, timers, roundCount, tableVars, serverVars>>

\* the try block of triggerImport reaches toast.success and setTimeout: the
\* response is ok, its body parses, and data.data.jobId does not throw
TriggerSucceeds(resp) == resp.net /\ resp.ok /\ resp.json /\ resp.hasData

TriggerSuccessToast(id) ==
    SuccessToast("Import job triggered successfully! Job ID: " \o JobId(id))

TriggerCatch == ErrorToast("Failed to trigger import job")

\* triggerImport from the settling of its fetch to its return
TriggerSettle(t, resp) ==
    /\ triggers' = triggers \ {t}
    /\ delivered' = Delivery("triggerImport", t.id, {Seen("trigger", resp)})
    /\ toast' = IF TriggerSucceeds(resp) THEN TriggerSuccessToast(t.id)
                ELSE TriggerCatch
    /\ timers' = IF TriggerSucceeds(resp) THEN timers + 1 ELSE timers
    /\ triggering' = Set(triggering, FALSE)
    /\ UNCHANGED <<mounted, importStats, importStatus, dashboardLoading, rounds,
                   interval, roundCount, triggerCount, tableVars, serverVars>>

TriggerStep == \E t \in triggers, resp \in Responses : TriggerSettle(t, resp)

(***************************************************************************)
(* ImportHistoryTable                                                      *)
(***************************************************************************)

InitialFilters ==
    [source |-> "", status |-> "", startDate |-> "", endDate |-> "",
     sortBy |-> "startTime", sortOrder |-> "desc"]

InitialPagination ==
    [currentPage |-> 1, totalPages |-> 1, totalCount |-> 0,
     hasNextPage |-> FALSE, hasPrevPage |-> FALSE, limit |-> 10]

\* the useState initial values of ImportHistoryTable
InitialTable ==
    /\ logs = <<>>
    /\ loading = TRUE
    /\ pagination = InitialPagination
    /\ filters = InitialFilters
    /\ selectedLog = Null
    /\ showDetails = FALSE
    /\ logsCalls = {}
    /\ logsCount = 0
    /\ priorCalls = 0

\* the values the filter controls offer besides the empty one
FilterValues ==
    [source |-> {"", "jobicy"}, status |-> {"", "failed"},
     startDate |-> {"", "2024-01-01"}, endDate |-> {"", "2024-01-31"}]

FilterKeys == {"source", "status", "startDate", "endDate"}

\* the columns whose header calls handleSort
SortColumns == {"startTime", "source", "status"}

\* the totalCount values the server answers with
TotalCounts == {0, 12}

\* the totalCount values the server answers with while a longer list shrinks
PagingCounts == {12, 31}

\* the totalCount the server answers with while the tabs are switched
HistoryCounts == {12}

\* the query with every filter spread unconditionally, empty or not
QueryParamsUnconditional(page, f, limit) ==
    [k \in {"page", "limit", "sortBy", "sortOrder"} \cup FilterKeys |->
        CASE k = "page" -> toString(page)
          [] k = "limit" -> toString(limit)
          [] OTHER -> f[k]]

\* new URLSearchParams({...}) of fetchLogs(page), built from filters f and
\* pagination.limit
QueryParams(page, f, limit) ==
    [k \in {"page", "limit", "sortBy", "sortOrder"} \cup
           {q \in FilterKeys : f[q] # ""} |->
        CASE k = "page" -> toString(page)
          [] k = "limit" -> toString(limit)
          [] OTHER -> f[k]]

LogsRequest(page, f, limit) ==
    Request("GET", "/api/import/logs", QueryParams(page, f, limit), "")

\* the fetchLogs(page) call number id, suspended at its await fetch
FetchLogsCall(id, page, f) ==
    [id |-> id, page |-> page, limit |-> pagination.limit,
     requests |-> {LogsRequest(page, f, pagination.limit)}]

\* fetchLogs(page) called by the handler itself, in the render before the
\* one that holds the new filters
StartFetchLogsStale(page, f) ==
    /\ logsCount' = logsCount + 1
    /\ loading' = TRUE
    /\ logsCalls' = logsCalls \cup {FetchLogsCall(logsCount + 1, page, filters)}

\* fetchLogs(page) up to its await fetch, in a render whose filters are f
StartFetchLogs(page, f) ==
    /\ logsCount' = logsCount + 1
    /\ loading' = TRUE
    /\ logsCalls' = logsCalls \cup {FetchLogsCall(logsCount + 1, page, f)}

\* the two effects of the first render: fetchLogs() and fetchLogs(1)
TableMount ==
    /\ activeTab = "history"
    /\ ~tableMounted
    /\ tableMounted' = TRUE
    /\ logsCount' = logsCount + 2
    /\ loading' = TRUE
    /\ logsCalls' = logsCalls \cup {FetchLogsCall(logsCount + 1, 1, filters),
                                    FetchLogsCall(logsCount + 2, 1, filters)}
    /\ delivered' = NoDelivery
    /\ toast' = NoToast
    /\ UNCHANGED <<serverVars, dashVars, cellVars, modalVars, priorCalls, activeTab, logs, pagination, filters>>

\* handleFilterChange(key, value) from a control of the filter panel (its
\* onChange fires when the value changes), and the effect on [filters] that
\* follows the render
HandleFilterChange(key, value) ==
    /\ tableMounted
    /\ value # filters[key]
    /\ filters' = [filters EXCEPT ![key] = value]
    /\ StartFetchLogs(1, filters')
    /\ delivered' = NoDelivery
    /\ toast' = NoToast
    /\ UNCHANGED <<serverVars, dashVars, cellVars, modalVars, priorCalls, activeTab, tableMounted, logs, pagination>>

\* the order toggled whatever column was sorted before
NewOrderToggle(column) == IF filters.sortOrder = "desc" THEN "asc" ELSE "desc"

\* the order handleSort(column) chooses
NewOrder(column) ==
    IF filters.sortBy = column /\ filters.sortOrder = "desc" THEN "asc" ELSE "desc"

\* handleSort(column) from a column header, and the effect on [filters]
HandleSort(column) ==
    /\ tableMounted
    /\ filters' = [filters EXCEPT !.sortBy = column, !.sortOrder = NewOrder(column)]
    /\ StartFetchLogs(1, filters')
    /\ delivered' = NoDelivery
    /\ toast' = NoToast
    /\ UNCHANGED <<serverVars, dashVars, cellVars, modalVars, priorCalls, activeTab, tableMounted, logs, pagination>>

\* clearFilters resetting sortBy to the name of the displayed column's field
ClearedFiltersTimestamp ==
    [source |-> "", status |-> "", startDate |-> "", endDate |-> "",
     sortBy |-> "timestamp", sortOrder |-> "desc"]

\* the filters clearFilters sets
ClearedFilters ==
    [source |-> "", status |-> "", startDate |-> "", endDate |-> "",
     sortBy |-> "startTime", sortOrder |-> "desc"]

\* clearFilters from the filter panel, and the effect on [filters]
ClearFilters ==
    /\ tableMounted
    /\ filters' = ClearedFilters
    /\ StartFetchLogs(1, filters')
    /\ delivered' = NoDelivery
    /\ toast' = NoToast
    /\ UNCHANGED <<serverVars, dashVars, cellVars, modalVars, priorCalls, activeTab, tableMounted, logs, pagination>>

\* handlePageChange(page)
HandlePageChange(page) ==
    /\ StartFetchLogs(page, filters)
    /\ delivered' = NoDelivery
    /\ toast' = NoToast
    /\ UNCHANGED <<serverVars, dashVars, cellVars, modalVars, priorCalls, activeTab, tableMounted, logs, pagination, filters>>

\* the Previous button of the pagination footer
PreviousPage ==
    /\ tableMounted
    /\ pagination.totalPages > 1
    /\ pagination.hasPrevPage
    /\ HandlePageChange(pagination.currentPage - 1)

\* the Next button of the pagination footer
NextPage ==
    /\ tableMounted
    /\ pagination.totalPages > 1
    /\ pagination.hasNextPage
    /\ HandlePageChange(pagination.currentPage + 1)

\* the Refresh button of the table: fetchLogs(pagination.currentPage)
RefreshLogs ==
    /\ tableMounted
    /\ StartFetchLogs(pagination.currentPage, filters)
    /\ delivered' = NoDelivery
    /\ toast' = NoToast
    /\ UNCHANGED <<serverVars, dashVars, cellVars, modalVars, priorCalls, activeTab, tableMounted, logs, pagination, filters>>

Ceil(a, b) == (a + b - 1) \div b

Min(a, b) == IF a < b THEN a ELSE b

\* data.pagination of a success body: page `page` of totalCount entries
ServerPagination(page, limit, totalCount) ==
    [currentPage |-> page, totalPages |-> Ceil(totalCount, limit),
     totalCount |-> totalCount, hasNextPage |-> page < Ceil(totalCount, limit),
     hasPrevPage |-> page > 1, limit |-> limit]

\* data.logs of a success body answering call id: the entries of that page
ServerLogs(id, page, limit, totalCount) ==
    LET first == (page - 1) * limit + 1
        last == Min(page * limit, totalCount)
    IN  [i \in 1..(IF last < first THEN 0 ELSE last - first + 1) |->
            [id |-> first + i - 1, from |-> id]]

\* fetchLogs without the test of data.success
FetchLogsSucceedsUnchecked(resp) == resp.net /\ resp.ok /\ resp.json

\* fetchLogs takes the branch that calls setLogs and setPagination
FetchLogsSucceeds(resp) == resp.net /\ resp.ok /\ resp.json /\ resp.success

FetchLogsCatch == ErrorToast("Failed to fetch import logs")

\* setLoading(false) at the end of the try block instead of in finally
FetchLogsFinallyInTry(resp) == IF FetchLogsSucceeds(resp) THEN FALSE ELSE loading

\* the finally block of fetchLogs: setLoading(false) whatever the response
FetchLogsFinally(resp) == FALSE

\* the call was made by the instance of the table that is mounted now
OfMountedTable(c) == tableMounted /\ c.id > priorCalls

\* React ignores a state setter of fetchLogs call c once the instance of the
\* table that made the call has unmounted
SetByCall(c, old, new) == IF OfMountedTable(c) THEN new ELSE old

\* fetchLogs from the settling of its fetch to its return
FetchLogsSettle(c, resp, totalCount) ==
    /\ logsCalls' = logsCalls \ {c}
    /\ delivered' = Delivery("fetchLogs", c.id, {Seen("logs", resp)})
    /\ logs' = IF FetchLogsSucceeds(resp)
               THEN SetByCall(c, logs, ServerLogs(c.id, c.page, c.limit, totalCount))
               ELSE logs
    /\ pagination' = IF FetchLogsSucceeds(resp)
                     THEN SetByCall(c, pagination,
                                    ServerPagination(c.page, c.limit, totalCount))
                     ELSE pagination
    /\ toast' = IF FetchLogsSucceeds(resp) THEN NoToast ELSE FetchLogsCatch
    /\ loading' = SetByCall(c, loading, FetchLogsFinally(resp))
    /\ UNCHANGED <<serverVars, dashVars, cellVars, modalVars, priorCalls, activeTab, tableMounted, filters, logsCount>>

\* one outstanding fetchLogs call settles; a success body counts one of counts
FetchLogsAmong(counts) ==
    \E c \in logsCalls, resp \in Responses :
        \E totalCount \in (IF FetchLogsSucceeds(resp) THEN counts ELSE {0}) :
            FetchLogsSettle(c, resp, totalCount)

FetchLogsStep == FetchLogsAmong(TotalCounts)

FetchLogsPagingStep == FetchLogsAmong(PagingCounts)

FetchLogsHistoryStep == FetchLogsAmong(HistoryCounts)

\* showLogDetails(log) from the details button of row i, rendered when
\* loading is false
ShowLogDetails(i) ==
    /\ tableMounted
    /\ ~loading
    /\ i \in DOMAIN logs
    /\ selectedLog' = logs[i]
    /\ showDetails' = TRUE
    /\ delivered' = NoDelivery
    /\ toast' = NoToast
    /\ UNCHANGED <<serverVars, dashVars, cellVars, priorCalls, activeTab, tableMounted,
                   logs, loading, pagination, filters, logsCalls, logsCount>>

\* the details modal is rendered
ModalShown == tableMounted /\ showDetails /\ selectedLog # Null

\* a close handler that also forgets the selected log
CloseDetailsClearsLog ==
    /\ ModalShown
    /\ showDetails' = FALSE
    /\ selectedLog' = Null
    /\ delivered' = NoDelivery
    /\ toast' = NoToast
    /\ UNCHANGED <<serverVars, dashVars, cellVars, priorCalls, activeTab, tableMounted,
                   logs, loading, pagination, filters, logsCalls, logsCount>>

\* setShowDetails(false) from the backdrop or the close button of the modal
CloseDetails ==
    /\ ModalShown
    /\ showDetails' = FALSE
    /\ delivered' = NoDelivery
    /\ toast' = NoToast
    /\ UNCHANGED <<serverVars, dashVars, cellVars, priorCalls, activeTab, tableMounted,
                   logs, loading, pagination, filters, logsCalls, logsCount,
                   selectedLog>>

Tabs == {"overview", "history"}

\* a history tab that hides the table instead of unmounting it
SetActiveTabKeepsTable(tab) ==
    /\ mounted = "mounted"
    /\ ~dashboardLoading
    /\ tab # activeTab
    /\ activeTab' = tab
    /\ delivered' = NoDelivery
    /\ toast' = NoToast
    /\ UNCHANGED <<serverVars, dashVars, cellVars, tableMounted, logs, loading, pagination,
                   filters, modalVars, priorCalls, logsCalls, logsCount>>

\* setActiveTab(tab) from a navigation tab of the Dashboard, and the render
\* that follows: leaving "history" unmounts ImportHistoryTable, entering it
\* constructs a new instance from the useState initial values, whose effects
\* have not run yet
SetActiveTab(tab) ==
    /\ mounted = "mounted"
    /\ ~dashboardLoading
    /\ tab # activeTab
    /\ activeTab' = tab
    /\ tableMounted' = FALSE
    /\ IF tab = "history"
       THEN /\ logs' = <<>>
            /\ loading' = TRUE
            /\ pagination' = InitialPagination
            /\ filters' = InitialFilters
            /\ selectedLog' = Null
            /\ showDetails' = FALSE
            /\ priorCalls' = logsCount
       ELSE UNCHANGED <<logs, loading, pagination, filters, modalVars, priorCalls>>
    /\ delivered' = NoDelivery
    /\ toast' = NoToast
    /\ UNCHANGED <<serverVars, dashVars, cellVars, logsCalls, logsCount>>

\* a JavaScript number
Number(n) == [tag |-> "number", value |-> n]

\* the durations of the log entries rendered: null, and the numbers of
\* milliseconds around every change of unit
Durations ==
    {Null} \cup
    {Number(h * 3600000 + m * 60000 + s * 1000 + ms) :
        h \in 0..MaxHours, m \in {0, 1, 59}, s \in {0, 1, 59}, ms \in {0, 1, 999}}

\* !duration: null and 0 are falsy
Falsy(v) == v = Null \/ (v.tag = "number" /\ v.value = 0)

\* Math.floor(a / b) of integers a and b > 0
Floor(a, b) == a \div b

\* a % b of JavaScript, which has the sign of a
Remainder(a, b) == IF a >= 0 THEN a % b ELSE 0 - ((0 - a) % b)

\* formatDuration with the total minutes beside the hours
formatDurationTotalMinutes(d) ==
    IF Falsy(d) THEN "N/A"
    ELSE LET seconds == Floor(d.value, 1000)
             minutes == Floor(seconds, 60)
             hours == Floor(minutes, 60)
         IN  IF hours > 0
             THEN toString(hours) \o "h " \o toString(minutes) \o "m"
             ELSE IF minutes > 0
             THEN toString(minutes) \o "m " \o toString(Remainder(seconds, 60)) \o "s"
             ELSE toString(seconds) \o "s"

formatDuration(d) ==
    IF Falsy(d) THEN "N/A"
    ELSE LET seconds == Floor(d.value, 1000)
             minutes == Floor(seconds, 60)
             hours == Floor(minutes, 60)
         IN  IF hours > 0
             THEN toString(hours) \o "h " \o toString(Remainder(minutes, 60)) \o "m"
             ELSE IF minutes > 0
             THEN toString(minutes) \o "m " \o toString(Remainder(seconds, 60)) \o "s"
             ELSE toString(seconds) \o "s"

\* the Duration cell of a row: {formatDuration(log.duration)}
RenderDuration ==
    /\ formatted = ""
    /\ formatted' = formatDuration(duration)
    /\ delivered' = NoDelivery
    /\ toast' = NoToast
    /\ UNCHANGED <<serverVars, dashVars, activeTab, tableMounted, logs, loading,
                   pagination, filters, logsCalls, logsCount, modalVars,
                   priorCalls, duration>>

\* the pagination footer is rendered
FooterShown == tableMounted /\ pagination.totalPages > 1

\* the upper end of the range without Math.min
RangeToUncapped(p) == p.currentPage * p.limit

\* the first number of "Showing X to Y of Z results"
RangeFrom(p) == (p.currentPage - 1) * p.limit + 1

\* the second number: Math.min(currentPage * limit, totalCount)
RangeTo(p) == Min(p.currentPage * p.limit, p.totalCount)

\* the three numbers the footer renders from pagination p
Showing(p) == [X |-> RangeFrom(p), Y |-> RangeTo(p), Z |-> p.totalCount]

(***************************************************************************)
(* Queue Engine (server/src/queues, server/src/workers): the source files  *)
(* are not available; this part follows the design document (section 4.1,  *)
(* section 5) and the Queue Configuration paragraph of the README.         *)
(***************************************************************************)

\* the priorities a trigger submits: the dashboard's manual trigger sends 10
Priorities == {1, 10}

\* the kinds of FetchError that fail a job attempt
FetchErrors == {"timeout", "network"}

NoFailure == [job |-> 0, error |-> "none"]

\* an ImportJob as submit creates it
NewJob(priority) ==
    [priority |-> priority, state |-> "pending", attempts |-> 0, delay |-> 0,
     waiting |-> FALSE, cancel |-> FALSE]

Pending == {j \in DOMAIN jobs : jobs[j].state = "pending"}

Running == {j \in DOMAIN jobs : jobs[j].state = "in-progress"}

\* job j precedes job k in the priority-ordered pending set: higher priority
\* first, submission order among equal priorities
Precedes(j, k) ==
    \/ jobs[j].priority > jobs[k].priority
    \/ jobs[j].priority = jobs[k].priority /\ j < k

\* a worker that takes whichever pending job it finds
AnyPending(j) == j \in Pending

\* job j is the head of the pending set
Foremost(j) == j \in Pending /\ \A k \in Pending \ {j} : Precedes(j, k)

\* the backoff delay before attempt number attemptsMade + 1, in units of the
\* base delay: it doubles with each attempt
BackoffFixed(attemptsMade) == 1

BackoffDelay(attemptsMade) == 2 ^ (attemptsMade - 1)

\* submit(job) -> jobId
Submit(priority) ==
    /\ Len(jobs) < MaxJobs
    /\ jobs' = Append(jobs, NewJob(priority))
    /\ lastFailure' = NoFailure
    /\ UNCHANGED <<clientVars, queueConcurrency, storeVars>>

\* a free worker without the test of the global limit
HasFreeWorkerUnbounded == TRUE

\* fewer jobs run than the global concurrency limit allows
HasFreeWorker == Cardinality(Running) < queueConcurrency

\* a worker dequeues the head of the pending set once its backoff has elapsed
Start(j) ==
    /\ Foremost(j)
    /\ ~jobs[j].waiting
    /\ HasFreeWorker
    /\ jobs' = [jobs EXCEPT ![j].state = "in-progress"]
    /\ lastFailure' = NoFailure
    /\ UNCHANGED <<clientVars, queueConcurrency, storeVars>>

\* the backoff delay of a requeued job elapses
BackoffElapses(j) ==
    /\ j \in Pending
    /\ jobs[j].waiting
    /\ jobs' = [jobs EXCEPT ![j].waiting = FALSE]
    /\ lastFailure' = NoFailure
    /\ UNCHANGED <<clientVars, queueConcurrency, storeVars>>

\* the run reports completion
Complete(j) ==
    /\ j \in Running
    /\ ~jobs[j].cancel
    /\ jobs' = [jobs EXCEPT ![j].state = "completed"]
    /\ lastFailure' = NoFailure
    /\ UNCHANGED <<clientVars, queueConcurrency, storeVars>>

\* retry that counts the attempts allowed after the first
MayRetryAfterFirst(attemptsMade) == attemptsMade <= MaxAttempts

\* the attempt cap: a job is requeued while it has made fewer than
\* MaxAttempts attempts
MayRetry(attemptsMade) == attemptsMade < MaxAttempts

\* retry decided before cancellation is looked at
AfterFailureRetryFirst(job) ==
    IF MayRetry(job.attempts + 1)
    THEN [job EXCEPT !.attempts = @ + 1, !.state = "pending",
                     !.delay = BackoffDelay(job.attempts + 1),
                     !.waiting = TRUE]
    ELSE [job EXCEPT !.attempts = @ + 1, !.state = "failed"]

\* the job after a job-level failure of its running attempt: cancellation
\* overrides retry, retry is bounded by the attempt cap
AfterFailure(job) ==
    IF job.cancel
    THEN [job EXCEPT !.attempts = @ + 1, !.state = "cancelled"]
    ELSE IF MayRetry(job.attempts + 1)
         THEN [job EXCEPT !.attempts = @ + 1, !.state = "pending",
                          !.delay = BackoffDelay(job.attempts + 1),
                          !.waiting = TRUE]
         ELSE [job EXCEPT !.attempts = @ + 1, !.state = "failed"]

\* the running attempt of job j fails with FetchError{error}
Fail(j, error) ==
    /\ j \in Running
    /\ jobs' = [jobs EXCEPT ![j] = AfterFailure(jobs[j])]
    /\ lastFailure' = [job |-> j, error |-> error]
    /\ UNCHANGED <<clientVars, queueConcurrency, storeVars>>

\* cancel accepted for a job in any state
CancellableAny(job) == TRUE

\* cancel(jobId) acts on a pending or running job
Cancellable(job) == job.state \in {"pending", "in-progress"}

\* cancel(jobId): a pending job is cancelled at once, a running job is asked
\* to stop at its next checkpoint
Cancel(j) ==
    /\ j \in DOMAIN jobs
    /\ Cancellable(jobs[j])
    /\ ~jobs[j].cancel
    /\ jobs' = [jobs EXCEPT ![j] =
                  IF @.state = "in-progress"
                  THEN [@ EXCEPT !.cancel = TRUE]
                  ELSE [@ EXCEPT !.state = "cancelled", !.waiting = FALSE]]
    /\ lastFailure' = NoFailure
    /\ UNCHANGED <<clientVars, queueConcurrency, storeVars>>

\* the running job observes the cancellation at a checkpoint between stages
ObserveCancel(j) ==
    /\ j \in Running
    /\ jobs[j].cancel
    /\ jobs' = [jobs EXCEPT ![j].state = "cancelled"]
    /\ lastFailure' = NoFailure
    /\ UNCHANGED <<clientVars, queueConcurrency, storeVars>>

(***************************************************************************)
(* Upserter (server/src/services): not available either; section 4.4 and   *)
(* section 5 of the design document.                                       *)
(***************************************************************************)

Writers == 1..MaxWriters

\* the JobRecords the runs normalize: a source, a dedup key and a content
\* fingerprint; the two sources yield the same dedup key
JobRecords ==
    [source : {"jobicy", "higheredjobs"}, key : {"k1"}, fingerprint : {1, 2}]

NoRecord == [source |-> "", key |-> "", fingerprint |-> 0]

\* a run between two records: the counts of its upsert so far
IdleWriter ==
    [pc |-> "idle", record |-> NoRecord, found |-> 0, newCount |-> 0,
     updatedCount |-> 0, done |-> 0]

\* run w, which has written nothing before its first record
Writer(w) == IF w \in DOMAIN writers THEN writers[w] ELSE IdleWriter

\* the runs with run w now being run
WritersWith(w, run) ==
    [v \in DOMAIN writers \cup {w} |-> IF v = w THEN run ELSE writers[v]]

\* the position of the stored row with the record's (source, dedup key), 0 if
\* there is none
Lookup(rec) ==
    IF \E i \in DOMAIN store :
          store[i].source = rec.source /\ store[i].key = rec.key
    THEN CHOOSE i \in DOMAIN store :
          store[i].source = rec.source /\ store[i].key = rec.key
    ELSE 0

RECURSIVE UpsertsOf(_)
\* the records the writers 1..w have taken up so far
UpsertsOf(w) ==
    IF w = 0 THEN 0
    ELSE UpsertsOf(w - 1) + Writer(w).done +
         (IF Writer(w).pc = "writing" THEN 1 ELSE 0)

\* writes to one dedup key not serialized
KeyFreeUnlocked(w, rec) == TRUE

\* no other writer is writing the record's (source, dedup key)
KeyFree(w, rec) ==
    \A v \in Writers \ {w} :
        Writer(v).pc = "writing"
        => ~(Writer(v).record.source = rec.source /\
             Writer(v).record.key = rec.key)

\* run w takes up the next record of its batch: it takes the lock of the
\* record's key and looks the key up
BeginUpsert(w, rec) ==
    /\ Writer(w).pc = "idle"
    /\ UpsertsOf(MaxWriters) < MaxUpserts
    /\ KeyFree(w, rec)
    /\ writers' = WritersWith(w, [Writer(w) EXCEPT !.pc = "writing",
                                                   !.record = rec,
                                                   !.found = Lookup(rec)])
    /\ UNCHANGED <<clientVars, queueVars, store>>

\* run w writes its record: insert (new), update in place (updated) or
\* nothing (a pure hit), and releases the key
WriteRecord(w) ==
    LET me == Writer(w)
        after == [me EXCEPT !.pc = "idle", !.record = NoRecord, !.found = 0,
                            !.done = @ + 1]
    IN  /\ me.pc = "writing"
        /\ IF me.found = 0
           THEN /\ store' = Append(store, me.record)
                /\ writers' = [writers EXCEPT ![w] =
                                  [after EXCEPT !.newCount = @ + 1]]
           ELSE IF store[me.found].fingerprint # me.record.fingerprint
                THEN /\ store' = [store EXCEPT ![me.found] = me.record]
                     /\ writers' = [writers EXCEPT ![w] =
                                       [after EXCEPT !.updatedCount = @ + 1]]
                ELSE /\ store' = store
                     /\ writers' = [writers EXCEPT ![w] = after]
        /\ UNCHANGED <<clientVars, queueVars>>

\* the server process as started with QUEUE_CONCURRENCY = concurrency
ServerStart(concurrency) ==
    /\ jobs = <<>>
    /\ queueConcurrency = concurrency
    /\ lastFailure = NoFailure
    /\ store = <<>>
    /\ writers = <<>>

\* no Duration cell is rendered
NoCell == duration = Null /\ formatted = ""

\* the Dashboard page as constructed, before its effect has run
InitDashboard ==
    /\ mounted = "init"
    /\ importStats = Null
    /\ importStatus = Null
    /\ dashboardLoading = TRUE
    /\ triggering = FALSE
    /\ activeTab = "overview"
    /\ rounds = {}
    /\ triggers = {}
    /\ interval = FALSE
    /\ timers = 0
    /\ roundCount = 0
    /\ triggerCount = 0
    /\ toast = NoToast
    /\ delivered = NoDelivery
    /\ tableMounted = FALSE
    /\ InitialTable
    /\ NoCell
    /\ ServerStart(QUEUE_CONCURRENCY)

\* every fetch call whose promise has not settled yet
InFlightRequests ==
    UNION ({r.requests : r \in rounds} \cup {t.requests : t \in triggers}
           \cup {c.requests : c \in logsCalls})

NextDashboard ==
    \/ DashboardMount
    \/ DashboardUnmount
    \/ PollTick
    \/ RefreshClick
    \/ TimerFire
    \/ FetchDataStep
    \/ TriggerImport
    \/ TriggerStep

SpecDashboard == InitDashboard /\ [][NextDashboard]_vars

\* ImportHistoryTable as constructed under a loaded Dashboard whose history
\* tab has just been opened, before its effects have run
InitTable ==
    /\ mounted = "mounted"
    /\ importStats = Data(1)
    /\ importStatus = Data(1)
    /\ dashboardLoading = FALSE
    /\ triggering = FALSE
    /\ activeTab = "history"
    /\ rounds = {}
    /\ triggers = {}
    /\ interval = TRUE
    /\ timers = 0
    /\ roundCount = 1
    /\ triggerCount = 0
    /\ toast = NoToast
    /\ delivered = NoDelivery
    /\ tableMounted = FALSE
    /\ InitialTable
    /\ NoCell
    /\ ServerStart(QUEUE_CONCURRENCY)

\* n more fetchLogs calls stay within max calls
Within(n, max) == logsCount + n <= max

NextTable ==
    \/ Within(2, MaxLogsCalls) /\ TableMount
    \/ \E key \in FilterKeys : \E value \in FilterValues[key] :
          Within(1, MaxLogsCalls) /\ HandleFilterChange(key, value)
    \/ \E column \in SortColumns : Within(1, MaxLogsCalls) /\ HandleSort(column)
    \/ Within(1, MaxLogsCalls) /\ ClearFilters
    \/ Within(1, MaxLogsCalls) /\ PreviousPage
    \/ Within(1, MaxLogsCalls) /\ NextPage
    \/ Within(1, MaxLogsCalls) /\ RefreshLogs
    \/ FetchLogsStep

SpecTable == InitTable /\ [][NextTable]_vars

\* the table driven by its pagination footer and Refresh button only
NextPaging ==
    \/ Within(2, MaxPagingCalls) /\ TableMount
    \/ Within(1, MaxPagingCalls) /\ PreviousPage
    \/ Within(1, MaxPagingCalls) /\ NextPage
    \/ Within(1, MaxPagingCalls) /\ RefreshLogs
    \/ FetchLogsPagingStep

SpecPaging == InitTable /\ [][NextPaging]_vars

\* the table driven by its Refresh button and the details buttons of its
\* first rows
NextDetails ==
    \/ Within(2, MaxDetailCalls) /\ TableMount
    \/ Within(1, MaxDetailCalls) /\ RefreshLogs
    \/ \E i \in 1..MaxRows : ShowLogDetails(i)
    \/ CloseDetails
    \/ FetchLogsStep

SpecDetails == InitTable /\ [][NextDetails]_vars

\* the table under a Dashboard whose tabs are switched: its status filter,
\* its Next button and the details of its first row
NextHistory ==
    \/ Within(2, MaxHistoryCalls) /\ TableMount
    \/ \E tab \in Tabs : SetActiveTab(tab)
    \/ \E value \in FilterValues["status"] :
          Within(1, MaxHistoryCalls) /\ HandleFilterChange("status", value)
    \/ Within(1, MaxHistoryCalls) /\ NextPage
    \/ ShowLogDetails(1)
    \/ FetchLogsHistoryStep

SpecHistory == InitTable /\ [][NextHistory]_vars

\* a displayed table about to render the Duration cell of a log entry with
\* any of the durations
InitFormat ==
    /\ mounted = "mounted"
    /\ importStats = Data(1)
    /\ importStatus = Data(1)
    /\ dashboardLoading = FALSE
    /\ triggering = FALSE
    /\ activeTab = "history"
    /\ rounds = {}
    /\ triggers = {}
    /\ interval = TRUE
    /\ timers = 0
    /\ roundCount = 1
    /\ triggerCount = 0
    /\ toast = NoToast
    /\ delivered = NoDelivery
    /\ tableMounted = TRUE
    /\ logs = <<>>
    /\ loading = FALSE
    /\ pagination = InitialPagination
    /\ filters = InitialFilters
    /\ selectedLog = Null
    /\ showDetails = FALSE
    /\ logsCalls = {}
    /\ logsCount = 2
    /\ priorCalls = 0
    /\ duration \in Durations
    /\ formatted = ""
    /\ ServerStart(QUEUE_CONCURRENCY)

NextFormat == RenderDuration

SpecFormat == InitFormat /\ [][NextFormat]_vars

\* the Queue Engine of a server started with some concurrency limit, and no
\* dashboard page open
InitQueue ==
    /\ mounted = "init"
    /\ importStats = Null
    /\ importStatus = Null
    /\ dashboardLoading = TRUE
    /\ triggering = FALSE
    /\ activeTab = "overview"
    /\ rounds = {}
    /\ triggers = {}
    /\ interval = FALSE
    /\ timers = 0
    /\ roundCount = 0
    /\ triggerCount = 0
    /\ toast = NoToast
    /\ delivered = NoDelivery
    /\ tableMounted = FALSE
    /\ InitialTable
    /\ NoCell
    /\ \E concurrency \in 1..MaxConcurrency : ServerStart(concurrency)

NextQueue ==
    \/ \E priority \in Priorities : Submit(priority)
    \/ \E j \in DOMAIN jobs : Start(j)
    \/ \E j \in DOMAIN jobs : BackoffElapses(j)
    \/ \E j \in DOMAIN jobs : Complete(j)
    \/ \E j \in DOMAIN jobs : \E error \in FetchErrors : Fail(j, error)
    \/ \E j \in DOMAIN jobs : Cancel(j)
    \/ \E j \in DOMAIN jobs : ObserveCancel(j)

SpecQueue == InitQueue /\ [][NextQueue]_vars

NextUpsert ==
    \/ \E w \in Writers : \E rec \in JobRecords : BeginUpsert(w, rec)
    \/ \E w \in Writers : WriteRecord(w)

\* the Upserter of a started server, written to by concurrent runs
SpecUpsert == InitDashboard /\ [][NextUpsert]_vars

(***************************************************************************)
(* Properties                                                              *)
(***************************************************************************)

\* the response is an HTTP answer with a status outside 2xx
NonOk(r) == r.net /\ ~r.ok

\* the response has a JSON body whose success member is false
SuccessFalse(r) == r.json /\ ~r.success

\* C1: a fetchLogs response that is non-2xx or has success:false raises an
\* error notification, and the step that handles it leaves the rendered logs
\* and pagination as they were (the response is never rendered as data).
C1_LogsFailureIsError ==
    [][\A d \in delivered'.seen :
          (d.of = "logs" /\ (NonOk(d.response) \/ SuccessFalse(d.response)))
          => /\ toast'.type = "error"
             /\ logs' = logs
             /\ pagination' = pagination]_vars

\* a 200 {success:false} answer to fetchLogs arrived while rows were displayed
C1_Witness ==
    /\ delivered.call = "fetchLogs"
    /\ \E d \in delivered.seen : d.response.ok /\ SuccessFalse(d.response)
    /\ toast.type = "error"
    /\ logs # <<>>

\* C2: in a fetchData round, a stats or status response that is non-2xx or has
\* success:false raises an error notification, and importStats (importStatus)
\* is not overwritten by the step that handles it.
C2_DashboardFailureIsError ==
    [][\A d \in delivered'.seen :
          (d.of \in {"stats", "status"}
             /\ (NonOk(d.response) \/ SuccessFalse(d.response)))
          => /\ toast'.type = "error"
             /\ (d.of = "stats" => importStats' = importStats)
             /\ (d.of = "status" => importStatus' = importStatus)]_vars

\* C3: when a fetchData round returns, importStats and importStatus both hold
\* that round's data or neither does, unless the round showed an error.
C3_NoPartialRound ==
    [][(delivered'.call = "fetchData"
          /\ \A r \in rounds' : r.id # delivered'.id)
       => \/ toast'.type = "error"
          \/ (importStats' = Data(delivered'.id)
                <=> importStatus' = Data(delivered'.id))]_vars

\* C4: triggerImport shows the success notification and schedules the
\* follow-up fetchData only for a 2xx response whose body has success:true,
\* and shows an error for a non-2xx response or a success:false body.
C4_TriggerSuccessOnlyOnSuccess ==
    [][\A d \in delivered'.seen :
          d.of = "trigger"
          => /\ (toast'.type = "success" \/ timers' > timers)
                  => (d.response.ok /\ d.response.success)
             /\ (NonOk(d.response) \/ SuccessFalse(d.response))
                  => toast'.type = "error"]_vars

\* C5: the step that handles a failed fetchLogs response (rejected fetch,
\* non-2xx, unparsable body or success:false) leaves logs and pagination
\* unchanged and sets loading to false.
C5_FailedLogsKeepsData ==
    [][\A d \in delivered'.seen :
          (d.of = "logs" /\ Failed(d.response))
          => /\ logs' = logs
             /\ pagination' = pagination
             /\ loading' = FALSE]_vars

\* a fetchLogs for page 2 failed while page 1 of an earlier answer is shown
C5_Witness ==
    /\ delivered.call = "fetchLogs"
    /\ \E d \in delivered.seen : Failed(d.response)
    /\ Len(logs) = 10
    /\ pagination.currentPage = 1
    /\ pagination.totalPages = 2
    /\ logsCount >= 3
    /\ ~loading

\* C6: once a fetchData round has returned to the mounted Dashboard, loading
\* is false, and loading never goes from false back to true.
C6_LoadingStaysFalse ==
    /\ []((mounted = "mounted" /\ roundCount > Cardinality(rounds))
            => ~dashboardLoading)
    /\ [][~dashboardLoading => ~dashboardLoading']_vars

\* a later round (poll, refresh or timer) has just failed and the page still
\* is not loading
C6_Witness ==
    /\ mounted = "mounted"
    /\ delivered.call = "fetchData"
    /\ delivered.id >= 2
    /\ toast.type = "error"
    /\ ~dashboardLoading

\* C7: every failed request (logs, stats, status, trigger) is displayed with
\* its message, the server's message when the response carries one, and with
\* a timestamp.
C7_FailureShownWithMessageAndTimestamp ==
    \A d \in delivered.seen :
        Failed(d.response)
        => /\ toast.type = "error"
           /\ (d.response.hasMessage => toast.message = ServerMessage)
           /\ "timestamp" \in DOMAIN toast

\* C8 as stated: every request the dashboard has in flight is a GET.
C8_OnlyGetRequests ==
    \A q \in InFlightRequests : q.method = "GET"

\* C8 amended: every request in flight is a GET of the logs, stats or status
\* endpoint, or the POST of the manual trigger to /api/import/trigger.
C8_ReadOnlyExceptTrigger ==
    \A q \in InFlightRequests :
        \/ /\ q.method = "GET"
           /\ q.url \in {"/api/import/logs", "/api/import/stats", "/api/import/status"}
           /\ q.body = ""
        \/ /\ q.method = "POST"
           /\ q.url = "/api/import/trigger"

\* a round's two GETs and a trigger's POST are in flight together
C8_Witness ==
    /\ \E q \in InFlightRequests : q.method = "POST"
    /\ \E q \in InFlightRequests : q.method = "GET" /\ q.url = "/api/import/stats"
    /\ \E q \in InFlightRequests : q.method = "GET" /\ q.url = "/api/import/status"

\* C9: every request of a triggerImport call is a POST to /api/import/trigger
\* whose body is the JSON object with the integers priority 10, concurrency 5
\* and batchSize 100, whatever happened before.
C9_TriggerBodyFixed ==
    \A t \in triggers : \A q \in t.requests :
        /\ q.method = "POST"
        /\ q.url = "/api/import/trigger"
        /\ q.body = "{\"priority\":10,\"concurrency\":5,\"batchSize\":100}"

\* the second trigger is in flight, after the first one and a later round
C9_Witness ==
    /\ \E t \in triggers : t.id = 2
    /\ roundCount >= 2
    /\ importStats # Null

\* C10: filters.sortOrder is asc or desc and filters.sortBy is startTime,
\* source or status in every state; the filters of the table as constructed,
\* and the filters after clearFilters, are sortBy startTime, sortOrder desc
\* and four empty filters.
C10_SortFields ==
    /\ [](/\ filters.sortOrder \in {"asc", "desc"}
          /\ filters.sortBy \in {"startTime", "source", "status"}
          /\ (~tableMounted =>
                filters = [source |-> "", status |-> "", startDate |-> "",
                           endDate |-> "", sortBy |-> "startTime",
                           sortOrder |-> "desc"]))
    /\ [][ClearFilters =>
            filters' = [source |-> "", status |-> "", startDate |-> "",
                        endDate |-> "", sortBy |-> "startTime",
                        sortOrder |-> "desc"]]_vars

\* a column other than the default one was clicked twice
C10_Witness ==
    /\ tableMounted
    /\ filters.sortBy = "status"
    /\ filters.sortOrder = "asc"

\* C11: every logs request carries page, limit, sortBy and sortOrder, and
\* carries source, status, startDate, endDate exactly when that filter is
\* non-empty in the filters of the render that issued the request; the call
\* sends all of them in one request, and no filter parameter is ever empty.
C11_QueryCarriesFilters ==
    [][\A c \in logsCalls' \ logsCalls :
          /\ Cardinality(c.requests) = 1
          /\ \A q \in c.requests :
                /\ q.method = "GET"
                /\ q.url = "/api/import/logs"
                /\ DOMAIN q.query =
                      {"page", "limit", "sortBy", "sortOrder"} \cup
                      {k \in FilterKeys : filters'[k] # ""}
                /\ q.query["page"] = toString(c.page)
                /\ q.query["limit"] = toString(pagination.limit)
                /\ q.query["sortBy"] = filters'.sortBy
                /\ q.query["sortOrder"] = filters'.sortOrder
                /\ \A k \in FilterKeys \cap DOMAIN q.query :
                      q.query[k] = filters'[k] /\ q.query[k] # ""]_vars

\* a request in flight that carries source and startDate together while the
\* status and endDate filters, being empty, are left out
C11_Witness ==
    \E c \in logsCalls : \E q \in c.requests :
        /\ filters.source = "jobicy"
        /\ filters.startDate = "2024-01-01"
        /\ filters.status = ""
        /\ filters.endDate = ""
        /\ DOMAIN q.query =
              {"page", "limit", "sortBy", "sortOrder", "source", "startDate"}
        /\ q.query["source"] = "jobicy"
        /\ q.query["startDate"] = "2024-01-01"

\* C12: with every response satisfying totalPages = ceil(totalCount / limit),
\* hasNextPage = (currentPage < totalPages), hasPrevPage = (currentPage > 1),
\* every request the Previous and Next buttons issue asks for a page p with
\* 1 <= p <= totalPages of the pagination displayed when the button is
\* pressed; Next is disabled on the last page and Previous on the first.
C12_PageRequestsInRange ==
    [][/\ \A c \in logsCalls' \ logsCalls :
             (tableMounted /\ c.page # pagination.currentPage)
             => (1 <= c.page /\ c.page <= pagination.totalPages)
       /\ pagination.currentPage = pagination.totalPages
             => ~pagination.hasNextPage
       /\ pagination.currentPage = 1 => ~pagination.hasPrevPage]_vars

\* C13: mounting the Dashboard starts exactly one fetchData and the 30 second
\* interval; the interval runs exactly as long as the page is mounted; once
\* the page is unmounted the interval is cleared, so a fetchData that starts
\* later is never a periodic one (only a pending one-shot timer can start it).
C13_PollsWhileMounted ==
    [][/\ (mounted = "init" /\ mounted' = "mounted")
             => (roundCount' = roundCount + 1 /\ interval')
       /\ interval' = (mounted' = "mounted")
       /\ (mounted = "unmounted" /\ roundCount' > roundCount)
             => timers' = timers - 1]_vars

\* the page was unmounted after the interval had started a second fetchData
\* while the first was still outstanding
C13_Witness ==
    /\ mounted = "unmounted"
    /\ ~interval
    /\ roundCount = 2
    /\ \E r \in rounds : r.id = 1 /\ r.pc = "fetching"
    /\ dashboardLoading
    /\ triggerCount = 0

\* the state changes the ImportJob state machine allows
LegalTransitions ==
    {<<"pending", "in-progress">>, <<"in-progress", "completed">>,
     <<"in-progress", "failed">>, <<"in-progress", "cancelled">>,
     <<"pending", "cancelled">>, <<"in-progress", "pending">>}

TerminalStates == {"completed", "failed", "cancelled"}

\* the number of times the job has been started
Starts(job) == job.attempts + (IF job.state = "in-progress" THEN 1 ELSE 0)

\* C14: every ImportJob state change is pending -> in-progress, in-progress
\* -> completed, failed or cancelled, pending -> cancelled, or the retry
\* in-progress -> pending; a submitted job starts pending, and a completed,
\* failed or cancelled job never changes state again.
C14_LegalTransitionsOnly ==
    [][/\ \A j \in DOMAIN jobs :
             /\ j \in DOMAIN jobs'
             /\ jobs'[j].state # jobs[j].state
                   => <<jobs[j].state, jobs'[j].state>> \in LegalTransitions
             /\ jobs[j].state \in TerminalStates
                   => jobs'[j].state = jobs[j].state
       /\ \A j \in DOMAIN jobs' \ DOMAIN jobs :
             jobs'[j].state = "pending"]_vars

\* one job completed on its second attempt, after a retry, and another was
\* cancelled while running
C14_Witness ==
    \E j, k \in DOMAIN jobs :
        /\ jobs[j].state = "completed"
        /\ jobs[j].attempts = 1
        /\ jobs[k].state = "cancelled"
        /\ jobs[k].cancel

\* C15: a failure of a job that is not cancelled re-enqueues it as long as it
\* has made fewer than 3 attempts; the third failure makes it failed, a
\* failed job has made exactly 3 attempts and stays failed, and no job is
\* ever started a fourth time.
C15_ThreeAttempts ==
    [][\A j \in DOMAIN jobs :
          /\ (lastFailure'.job = j /\ ~jobs[j].cancel)
                => /\ jobs'[j].attempts = jobs[j].attempts + 1
                   /\ jobs'[j].attempts < 3 => jobs'[j].state = "pending"
                   /\ jobs'[j].attempts = 3 => jobs'[j].state = "failed"
          /\ jobs'[j].state = "failed" => jobs'[j].attempts = 3
          /\ jobs[j].state = "failed" => jobs'[j] = jobs[j]
          /\ Starts(jobs'[j]) <= 3]_vars

\* a job has failed three times and is failed
C15_Witness ==
    \E j \in DOMAIN jobs :
        /\ jobs[j].state = "failed"
        /\ jobs[j].attempts = 3
        /\ lastFailure.job = j

\* C16: the job a worker starts has the highest priority among the pending
\* jobs and is the earliest submitted of that priority; with a limit of 1 and
\* two pending jobs of priority 10 and 1 the priority 10 job is the one
\* started, whichever was submitted first.
C16_HighestPriorityFirst ==
    [][\A j \in DOMAIN jobs :
          (jobs[j].state = "pending" /\ jobs'[j].state = "in-progress")
          => /\ \A k \in Pending :
                   /\ jobs[k].priority <= jobs[j].priority
                   /\ jobs[k].priority = jobs[j].priority => j <= k
             /\ (queueConcurrency = 1 /\
                 {jobs[k].priority : k \in Pending} = {1, 10})
                   => jobs[j].priority = 10]_vars

\* with a limit of 1, the priority 10 job submitted second is running while
\* the priority 1 job submitted first has never been started
C16_Witness ==
    /\ queueConcurrency = 1
    /\ Len(jobs) = 2
    /\ jobs[1].priority = 1
    /\ jobs[1].state = "pending"
    /\ jobs[1].attempts = 0
    /\ jobs[2].priority = 10
    /\ jobs[2].state = "in-progress"
    /\ jobs[2].attempts = 0

\* C17: a job cancelled while pending becomes cancelled in that step, without
\* an attempt, and a cancelled job stays cancelled, so it is never in
\* progress later; a job whose cancellation was requested while it ran is
\* never re-enqueued, whatever its attempt does.
C17_CancelOverridesRetry ==
    [][\A j \in DOMAIN jobs :
          /\ (jobs[j].state = "pending" /\ jobs'[j].state = "cancelled")
                => jobs'[j].attempts = jobs[j].attempts
          /\ jobs[j].state = "cancelled" => jobs'[j].state = "cancelled"
          /\ (jobs[j].state = "in-progress" /\ jobs[j].cancel)
                => jobs'[j].state \in {"in-progress", "cancelled"}]_vars

\* one job was cancelled while pending and never started; the other failed
\* its first attempt after its cancellation had been requested and is
\* cancelled instead of requeued
C17_Witness ==
    \E j, k \in DOMAIN jobs :
        /\ jobs[j].state = "cancelled"
        /\ ~jobs[j].cancel
        /\ jobs[j].attempts = 0
        /\ jobs[k].state = "cancelled"
        /\ jobs[k].cancel
        /\ jobs[k].attempts = 1
        /\ lastFailure.job = k

\* C19: in every reachable state the number of jobs in progress is at most
\* the configured global concurrency limit.
C19_ConcurrencyLimit ==
    Cardinality({j \in DOMAIN jobs : jobs[j].state = "in-progress"})
        <= queueConcurrency

\* the limit is reached while the head of the pending set is ready to run
C19_Witness ==
    /\ Cardinality(Running) = queueConcurrency
    /\ \E j \in Pending : Foremost(j) /\ ~jobs[j].waiting

C18_OneRowPerKeyIdempotent ==
    [][/\ \A i, k \in DOMAIN store' :
             (store'[i].source = store'[k].source /\
              store'[i].key = store'[k].key) => i = k
       /\ \A w \in DOMAIN writers :
             (writers[w].pc = "writing" /\ writers'[w].pc = "idle" /\
              \E i \in DOMAIN store : store[i] = writers[w].record)
             => /\ store' = store
                /\ writers'[w].newCount = writers[w].newCount
                /\ writers'[w].updatedCount = writers[w].updatedCount]_vars

\* both sources' rows are stored under the same dedup key; run 1 upserted the
\* same record twice, the second time as a pure hit, while run 2 inserted one
\* row and changed the content of the other
C18_Witness ==
    /\ DOMAIN writers = {1, 2}
    /\ Len(store) = 2
    /\ writers[1].done = 2
    /\ writers[1].newCount = 1
    /\ writers[1].updatedCount = 0
    /\ writers[2].done = 2
    /\ writers[2].newCount = 1
    /\ writers[2].updatedCount = 1

\* C21: whenever the footer is shown for a pagination with
\* totalPages = ceil(totalCount / limit) and 1 <= currentPage <= totalPages,
\* the range it shows is X = (currentPage-1)*limit+1,
\* Y = min(currentPage*limit, totalCount), Z = totalCount, and
\* 1 <= X <= Y <= Z
C21_FooterRange ==
    LET p == pagination
        shown == Showing(p)
    IN  (/\ FooterShown
         /\ p.totalPages = Ceil(p.totalCount, p.limit)
         /\ 1 <= p.currentPage
         /\ p.currentPage <= p.totalPages)
        => /\ shown.X = (p.currentPage - 1) * p.limit + 1
           /\ shown.Y = (IF p.currentPage * p.limit < p.totalCount
                         THEN p.currentPage * p.limit ELSE p.totalCount)
           /\ shown.Z = p.totalCount
           /\ 1 <= shown.X
           /\ shown.X <= shown.Y
           /\ shown.Y <= shown.Z

\* the footer shows a last page that is not full: "Showing 11 to 12 of 12"
C21_Witness ==
    /\ FooterShown
    /\ pagination.totalPages = Ceil(pagination.totalCount, pagination.limit)
    /\ pagination.currentPage = pagination.totalPages
    /\ pagination.currentPage * pagination.limit > pagination.totalCount
    /\ Showing(pagination).Y = pagination.totalCount

\* C22: a response to an older fetchLogs request, arriving after a newer
\* one, never overwrites the newer result: whenever a settling call replaces
\* the displayed logs, those were not the answer to a call issued after it
C22_NoStaleOverwrite ==
    [][(delivered'.call = "fetchLogs" /\ logs' # logs)
       => \A i \in DOMAIN logs : logs[i].from < delivered'.id]_vars

\* C23: loading is true in every state where at least one fetchLogs request
\* is in flight, and false only when none is
C23_LoadingWhileInFlight == logsCalls # {} => loading

C25_SortToggle ==
    [][\A column \in SortColumns :
          HandleSort(column)
          => /\ filters'.sortBy = column
             /\ filters'.sortOrder =
                   (IF filters.sortBy = column /\ filters.sortOrder = "desc"
                    THEN "asc" ELSE "desc")
             /\ \A k \in FilterKeys : filters'[k] = filters[k]]_vars

\* the source header was clicked twice: its requests ask for desc, then asc
C25_Witness ==
    /\ filters.sortBy = "source"
    /\ filters.sortOrder = "asc"
    /\ \E c \in logsCalls, d \in logsCalls :
          /\ d.id > c.id
          /\ \A r \in c.requests :
                r.query.sortBy = "source" /\ r.query.sortOrder = "desc"
          /\ \A r \in d.requests :
                r.query.sortBy = "source" /\ r.query.sortOrder = "asc"

\* C26: at most one trigger request is in flight at any time; triggering is
\* true while the request is in flight, and the step that handles its
\* outcome (success, non-2xx, network error) in the mounted Dashboard leaves
\* triggering false
C26_SingleTriggerInFlight ==
    [][/\ Cardinality(triggers') <= 1
       /\ triggers' # {} => triggering'
       /\ \A d \in delivered'.seen :
             (d.of = "trigger" /\ mounted = "mounted") => ~triggering']_vars

\* a first trigger has failed with a non-2xx answer and left the button
\* enabled; the second trigger is in flight
C26_Witness ==
    /\ mounted = "mounted"
    /\ triggerCount = 2
    /\ Cardinality(triggers) = 1
    /\ triggering
    /\ timers = 0

\* C27: the step that handles a trigger response schedules exactly one
\* delayed fetchData when it reports success and none when it reports
\* failure; unmounting the Dashboard cancels no such timer; and after the
\* unmount a fetchData starts only by the firing of a pending timer
C27_DelayedRefreshSurvivesUnmount ==
    [][/\ \A d \in delivered'.seen :
             d.of = "trigger"
             => /\ toast'.type = "success" => timers' = timers + 1
                /\ toast'.type = "error" => timers' = timers
                /\ (~d.response.net \/ ~d.response.ok) => toast'.type = "error"
       /\ (mounted = "mounted" /\ mounted' = "unmounted") => timers' = timers
       /\ (mounted = "unmounted" /\ roundCount' > roundCount)
             => timers > 0 /\ timers' = timers - 1]_vars

\* the Dashboard has unmounted with the timer of a successful trigger
\* pending, and nothing else outstanding
C27_Witness ==
    /\ mounted = "unmounted"
    /\ timers = 1
    /\ triggerCount = 1
    /\ triggers = {}
    /\ rounds = {}
    /\ ~interval
    /\ roundCount < MaxRounds
    /\ delivered = NoDelivery

\* C28: showDetails implies that selectedLog is not null; closing the details
\* modal sets showDetails to false and leaves selectedLog unchanged; and the
\* step that handles a fetchLogs response changes neither selectedLog nor
\* showDetails, selectedLog being the row as it was when it was clicked
C28_SelectedLogSnapshot ==
    [][/\ showDetails' => selectedLog' # Null
       /\ CloseDetails => ~showDetails'
       /\ (showDetails /\ ~showDetails') => selectedLog' = selectedLog
       /\ delivered'.call = "fetchLogs"
             => selectedLog' = selectedLog /\ showDetails' = showDetails
       /\ \A i \in 1..MaxRows : ShowLogDetails(i) => selectedLog' = logs[i]]_vars

\* the modal was opened on a row of an earlier answer and closed, and the
\* table now shows the rows of a later answer
C28_Witness ==
    /\ tableMounted
    /\ ~showDetails
    /\ selectedLog # Null
    /\ logs # <<>>
    /\ selectedLog.from < logs[1].from
    /\ delivered.call = "fetchLogs"

\* C29: leaving the history tab unmounts the table; entering it again gives
\* a new table whose filters, sort, page, rows and selected log have their
\* initial values; the mount of that table fetches the logs again, for page
\* 1 with the initial filters; and an answer to a request of the earlier
\* table changes nothing of the new one
C29_TabSwitchResetsTable ==
    [][/\ activeTab' # "history" => ~tableMounted'
       /\ (activeTab # "history" /\ activeTab' = "history")
             => /\ ~tableMounted'
                /\ filters' = InitialFilters
                /\ pagination' = InitialPagination
                /\ logs' = <<>>
                /\ loading'
                /\ selectedLog' = Null
                /\ ~showDetails'
       /\ (~tableMounted /\ tableMounted')
             => /\ logsCalls' \ logsCalls # {}
                /\ \A c \in logsCalls' \ logsCalls :
                      c.requests = {LogsRequest(1, InitialFilters,
                                                InitialPagination.limit)}
       /\ \A c \in logsCalls :
             (delivered'.call = "fetchLogs" /\ delivered'.id = c.id
              /\ c.id <= priorCalls)
             => /\ filters' = filters
                /\ pagination' = pagination
                /\ logs' = logs
                /\ loading' = loading]_vars

\* the tab was left with a status filter set and its request outstanding,
\* and entered again: the new table has the initial filters and has issued
\* its own requests
C29_Witness ==
    /\ activeTab = "history"
    /\ tableMounted
    /\ priorCalls = 3
    /\ filters = InitialFilters
    /\ \E c \in logsCalls :
          /\ c.id <= priorCalls
          /\ \A r \in c.requests :
                "status" \in DOMAIN r.query /\ r.query.status = "failed"
    /\ \E c \in logsCalls : c.id > priorCalls

\* C30: formatDuration(d) is "N/A" when d is null or 0; otherwise, with
\* s = floor(d/1000), m = floor(s/60), h = floor(m/60), it is
\* "<h>h <m mod 60>m" when h > 0, "<m>m <s mod 60>s" when h = 0 and m > 0,
\* and "<s>s" otherwise, so that any d from 1 to 999 gives "0s"
C30_FormatDuration ==
    formatted # ""
    => IF duration = Null THEN formatted = "N/A"
       ELSE LET d == duration.value
                s == d \div 1000
                m == s \div 60
                h == m \div 60
            IN  /\ d = 0 => formatted = "N/A"
                /\ (d # 0 /\ h > 0)
                      => formatted = toString(h) \o "h " \o toString(m % 60) \o "m"
                /\ (d # 0 /\ h = 0 /\ m > 0)
                      => formatted = toString(m) \o "m " \o toString(s % 60) \o "s"
                /\ (d # 0 /\ h = 0 /\ m = 0)
                      => formatted = toString(s) \o "s"
                /\ (1 <= d /\ d <= 999) => formatted = "0s"

\* 2 h 59 min 59.999 s is rendered as "2h 59m"
C30_Witness ==
    /\ duration = Number(2 * 3600000 + 59 * 60000 + 59 * 1000 + 999)
    /\ formatted = "2h 59m"

====
